---- MODULE Spec2Model ----
\* A model of RdkafkaProducer (routerlicious/functions/deli/src/rdkafka/producer.ts):
\* the per-key boxcar queues, the deferred flush, the produce calls handed to the
\* broker client and the delivery reports that settle the boxcars' Deferreds.
EXTENDS Integers, Sequences, FiniteSets, TLC

\* ---------------------------------------------------------------- bounds

\* The number of send calls a behaviour makes.
MaxSends == 3

\* The number of send calls a behaviour of LiveSpec makes.
MaxLiveSends == 2

\* The ceiling on pendingMessageCount in a build of CeilingSpec, where
\* MaxBatchSize is a number the counter reaches.
CeilingBatchSize == 2

\* ---------------------------------------------------------------- inputs

\* The constructor's maxMessageSize argument.
ConfiguredMaxMessageSize == 4

\* A string is a sequence of characters; message.length is Len.
Str(n) == [i \in 1..n |-> "m"]

\* The messages send is called with: every length from 1 up to the effective
\* limit itself (3 of the configured 4), so that lengths below the limit and the
\* length equal to it both occur.
Messages == { Str(n) : n \in 1..ConfiguredMaxMessageSize - 1 }

\* The (tenantId, documentId) pairs send is called with. The ids of the second
\* and third pair contain the separator of the key, and the two pairs differ.
StreamA == << <<"a">>, <<"a">> >>
StreamB == << <<"a">>, <<"a", "/", "a">> >>
StreamC == << <<"a", "/", "a">>, <<"a">> >>

\* The callers of one producer send to one of these sets of streams.
StreamSets == { {StreamA, StreamB}, {StreamB, StreamC} }
Streams == UNION StreamSets

\* The error a delivery report may carry.
DeliveryError == "BrokerDeliveryError"

\* MaxBatchSize = Number.MAX_VALUE: larger than any value pendingMessageCount
\* takes; held as the largest integer of the model checker.
MaxBatchSize == 2147483647

VARIABLES
    maxMessageSize,       \* this.maxMessageSize, in quarters (4 * the field's value)
    messages,             \* this.messages: the Map, as its entries in insertion order
    connected,            \* this.connected
    sendPending,          \* this.sendPending is set (an Immediate) or undefined
    pendingMessageCount,  \* this.pendingMessageCount
    maxBatchSize,         \* MaxBatchSize, the constant of the build
    immediates,           \* the setImmediate callbacks the event loop still holds
    deferreds,            \* the Deferreds created so far, by number, with their state
    produced,             \* the producer.produce calls made so far, in call order
    reports,              \* per produce call: the delivery report received for it
    connectState,         \* the connect callback: not yet fired, or fired with/without error
    closed,               \* close() has been called
    streams,              \* the streams this producer's callers send to
    calls                 \* the send calls made so far: arguments and returned promise

vars ==
    << maxMessageSize, messages, connected, sendPending, pendingMessageCount, maxBatchSize,
       immediates, deferreds, produced, reports, connectState, closed, streams, calls >>

\* ---------------------------------------------------------------- helpers

\* `${tenantId}/${documentId}`
Key(tenantId, documentId) == tenantId \o <<"/">> \o documentId

\* this.messages.has(key)
Has(map, key) == \E i \in 1..Len(map) : map[i].key = key

\* The position of key's entry in the Map.
EntryOf(map, key) == CHOOSE i \in 1..Len(map) : map[i].key = key

\* A Deferred's promise: pending until the first resolve or reject, which it keeps.
Pending == [state |-> "pending", value |-> "undefined"]
Resolve(d) == IF d.state = "pending" THEN [state |-> "resolved", value |-> "undefined"] ELSE d
Reject(d, err) == IF d.state = "pending" THEN [state |-> "rejected", value |-> err] ELSE d

\* The producer's fields and the broker client's view of them, as one record the
\* methods below transform.
This ==
    [ maxMessageSize |-> maxMessageSize, messages |-> messages, connected |-> connected,
      sendPending |-> sendPending, pendingMessageCount |-> pendingMessageCount,
      maxBatchSize |-> maxBatchSize, immediates |-> immediates, deferreds |-> deferreds, produced |-> produced,
      reports |-> reports ]

Becomes(s) ==
    /\ maxMessageSize' = s.maxMessageSize
    /\ messages' = s.messages
    /\ connected' = s.connected
    /\ sendPending' = s.sendPending
    /\ pendingMessageCount' = s.pendingMessageCount
    /\ maxBatchSize' = s.maxBatchSize
    /\ immediates' = s.immediates
    /\ deferreds' = s.deferreds
    /\ produced' = s.produced
    /\ reports' = s.reports

\* ---------------------------------------------------------------- methods

\* The produce call made for one boxcar: the IBoxcarMessage, the routing key and
\* the boxcar's Deferred as the opaque token.
BoxcarRecord(boxcar) ==
    [ contents |-> boxcar.messages, documentId |-> boxcar.documentId,
      tenantId |-> boxcar.tenantId, key |-> boxcar.documentId,
      opaque |-> boxcar.deferred ]

RECURSIVE BoxcarRecords(_)
BoxcarRecords(boxcars) ==
    IF boxcars = <<>> THEN <<>>
    ELSE <<BoxcarRecord(Head(boxcars))>> \o BoxcarRecords(Tail(boxcars))

\* (mutant) the pass stops after the first entry of the Map
ProduceAll_FirstEntry(map) ==
    IF map = <<>> THEN <<>>
    ELSE BoxcarRecords(Head(map).boxcars)

\* The produce calls of one pass over the Map: entries in insertion order, each
\* entry's boxcars in queue order.
RECURSIVE ProduceAll(_)
ProduceAll(map) ==
    IF map = <<>> THEN <<>>
    ELSE BoxcarRecords(Head(map).boxcars) \o ProduceAll(Tail(map))

\* (mutant) the flush does not reset pendingMessageCount
sendPendingMessages_KeepsCount(s) ==
    LET records == ProduceAll(s.messages) IN
    [ s EXCEPT
        !.produced = @ \o records,
        !.reports = @ \o [i \in 1..Len(records) |-> "awaiting"],
        !.messages = <<>> ]

\* (mutant) the flush does not clear the Map
sendPendingMessages_KeepsQueue(s) ==
    LET records == ProduceAll(s.messages) IN
    [ s EXCEPT
        !.produced = @ \o records,
        !.reports = @ \o [i \in 1..Len(records) |-> "awaiting"],
        !.pendingMessageCount = 0 ]

\* (mutant) the flush settles each boxcar's Deferred as soon as it is produced
sendPendingMessages_ResolvesOnProduce(s) ==
    LET records == ProduceAll(s.messages) IN
    [ s EXCEPT
        !.produced = @ \o records,
        !.reports = @ \o [i \in 1..Len(records) |-> "awaiting"],
        !.deferreds = [h \in 1..Len(@) |->
                          IF \E i \in 1..Len(records) : records[i].opaque = h
                          THEN Resolve(@[h]) ELSE @[h]],
        !.pendingMessageCount = 0,
        !.messages = <<>> ]

sendPendingMessages(s) ==
    LET records == ProduceAll(s.messages) IN
    [ s EXCEPT
        !.produced = @ \o records,
        !.reports = @ \o [i \in 1..Len(records) |-> "awaiting"],
        !.pendingMessageCount = 0,
        !.messages = <<>> ]

\* (mutant) the flush at the ceiling leaves the scheduled Immediate in place
requestSend_NoCancel(s) ==
    IF ~s.connected THEN s
    ELSE IF s.pendingMessageCount >= s.maxBatchSize THEN sendPendingMessages(s)
    ELSE IF s.sendPending THEN s
    ELSE [ s EXCEPT !.sendPending = TRUE, !.immediates = @ + 1 ]

\* (mutant) no early exit when a send is already pending
requestSend_NoCoalesce(s) ==
    IF ~s.connected THEN s
    ELSE IF s.pendingMessageCount >= s.maxBatchSize THEN
        sendPendingMessages(
            [ s EXCEPT
                !.immediates = IF s.sendPending THEN @ - 1 ELSE @,
                !.sendPending = FALSE ])
    ELSE [ s EXCEPT !.sendPending = TRUE, !.immediates = @ + 1 ]

\* (mutant) no check of this.connected
requestSend_IgnoresConnected(s) ==
    IF s.pendingMessageCount >= s.maxBatchSize THEN
        sendPendingMessages(
            [ s EXCEPT
                !.immediates = IF s.sendPending THEN @ - 1 ELSE @,
                !.sendPending = FALSE ])
    ELSE IF s.sendPending THEN s
    ELSE [ s EXCEPT !.sendPending = TRUE, !.immediates = @ + 1 ]

requestSend(s) ==
    IF ~s.connected THEN s
    ELSE IF s.pendingMessageCount >= s.maxBatchSize THEN
        sendPendingMessages(
            [ s EXCEPT
                !.immediates = IF s.sendPending THEN @ - 1 ELSE @,
                !.sendPending = FALSE ])
    ELSE IF s.sendPending THEN s
    ELSE [ s EXCEPT !.sendPending = TRUE, !.immediates = @ + 1 ]

\* (mutant) one Deferred shared by every boxcar instead of a new one per boxcar
NewBoxcar_SharedDeferred(deferred, tenantId, documentId) ==
    [ deferred |-> 1, documentId |-> documentId, messages |-> <<>>,
      size |-> 0, tenantId |-> tenantId ]

\* The boxcar send pushes when the tail cannot take the message.
NewBoxcar(deferred, tenantId, documentId) ==
    [ deferred |-> deferred, documentId |-> documentId, messages |-> <<>>,
      size |-> 0, tenantId |-> tenantId ]

\* (mutant) send also refuses once two messages are queued
TooLarge_OrBackpressure(s, message) ==
    \/ 4 * Len(message) >= s.maxMessageSize
    \/ s.pendingMessageCount >= 2

\* (mutant) the size check with > for >=
TooLarge_Strict(s, message) == 4 * Len(message) > s.maxMessageSize

\* message.length >= this.maxMessageSize
TooLarge(s, message) == 4 * Len(message) >= s.maxMessageSize

\* (mutant) the tail is replaced only once it is itself over the limit
NeedsNewBoxcar_TailOnly(s, boxcars, message) ==
    \/ Len(boxcars) = 0
    \/ 4 * boxcars[Len(boxcars)].size > s.maxMessageSize

\* (mutant) >= for >: a boxcar may not be filled to the limit exactly
NeedsNewBoxcar_Early(s, boxcars, message) ==
    \/ Len(boxcars) = 0
    \/ 4 * (boxcars[Len(boxcars)].size + Len(message)) >= s.maxMessageSize

\* boxcars.length === 0 || tail.size + message.length > this.maxMessageSize
NeedsNewBoxcar(s, boxcars, message) ==
    \/ Len(boxcars) = 0
    \/ 4 * (boxcars[Len(boxcars)].size + Len(message)) > s.maxMessageSize

\* (mutant) unshift for push
AddMessage_Unshift(boxcar, message) ==
    [ boxcar EXCEPT !.messages = <<message>> \o @, !.size = @ + Len(message) ]

\* boxcar.messages.push(message); boxcar.size += message.length
AddMessage(boxcar, message) ==
    [ boxcar EXCEPT !.messages = Append(@, message), !.size = @ + Len(message) ]

\* send: the state it leaves and the promise it returns.
send(s, message, tenantId, documentId) ==
    IF TooLarge(s, message)
    THEN [ state |-> s, result |-> [status |-> "rejected", deferred |-> 0] ]
    ELSE
        LET key == Key(tenantId, documentId)
            map == IF Has(s.messages, key) THEN s.messages
                   ELSE Append(s.messages, [key |-> key, boxcars |-> <<>>])
            e == EntryOf(map, key)
            fresh == NeedsNewBoxcar(s, map[e].boxcars, message)
            newDeferred == Len(s.deferreds) + 1
            boxcars == IF fresh
                       THEN Append(map[e].boxcars, NewBoxcar(newDeferred, tenantId, documentId))
                       ELSE map[e].boxcars
            last == Len(boxcars)
            boxcar == AddMessage(boxcars[last], message)
            s1 == [ s EXCEPT
                      !.messages = [map EXCEPT ![e].boxcars = [boxcars EXCEPT ![last] = boxcar]],
                      !.deferreds = IF fresh THEN Append(@, Pending) ELSE @,
                      !.pendingMessageCount = @ + 1 ]
        IN [ state |-> requestSend(s1),
             result |-> [status |-> "deferred", deferred |-> boxcar.deferred] ]

\* (mutant) the connect callback sets the flag and does not request a send
connectCallback_NoRequestSend(s) == [s EXCEPT !.connected = TRUE]

\* The connect callback.
connectCallback(s) == requestSend([s EXCEPT !.connected = TRUE])

\* (mutant) the callback flushes and leaves this.sendPending set
immediateCallback_KeepsFlag(s) == sendPendingMessages(s)

\* The callback requestSend hands to setImmediate.
immediateCallback(s) == [ sendPendingMessages(s) EXCEPT !.sendPending = FALSE ]

\* (mutant) a failed delivery requests another send
deliveryReport_Retries(s, i, err) ==
    LET opaque == s.produced[i].opaque
        s1 == [ s EXCEPT
                  !.reports[i] = err,
                  !.deferreds[opaque] = IF err # "ok" THEN Reject(@, err) ELSE Resolve(@) ]
    IN IF err # "ok" THEN requestSend(s1) ELSE s1

\* (mutant) the handler resolves whatever the report says
deliveryReport_IgnoresError(s, i, err) ==
    LET opaque == s.produced[i].opaque IN
    [ s EXCEPT !.reports[i] = err, !.deferreds[opaque] = Resolve(@) ]

\* The handlers of event.log, event.error, ready and disconnected: each writes
\* to the console and touches no field.
eventLog(s) == s
eventError(s) == s
ready(s) == s
disconnected(s) == s

\* (mutant) close drops the queues and cancels the scheduled flush
close_TearsDown(s) ==
    [ s EXCEPT
        !.messages = <<>>, !.pendingMessageCount = 0,
        !.sendPending = FALSE, !.immediates = 0 ]

\* close: this.producer.disconnect and nothing else.
close(s) == s

\* The delivery-report handler, for the report of produce call i.
deliveryReport(s, i, err) ==
    LET opaque == s.produced[i].opaque IN
    [ s EXCEPT
        !.reports[i] = err,
        !.deferreds[opaque] = IF err # "ok" THEN Reject(@, err) ELSE Resolve(@) ]

\* ---------------------------------------------------------------- actions

Init ==
    /\ maxMessageSize = 3 * ConfiguredMaxMessageSize
    /\ messages = <<>>
    /\ connected = FALSE
    /\ sendPending = FALSE
    /\ pendingMessageCount = 0
    /\ maxBatchSize = MaxBatchSize
    /\ immediates = 0
    /\ deferreds = <<>>
    /\ produced = <<>>
    /\ reports = <<>>
    /\ connectState = "connecting"
    /\ closed = FALSE
    /\ streams \in StreamSets
    /\ calls = <<>>

SendUpTo(n) ==
    /\ Len(calls) < n
    /\ \E message \in Messages, stream \in streams :
        LET r == send(This, message, stream[1], stream[2]) IN
        /\ Becomes(r.state)
        /\ calls' = Append(calls, [ message |-> message, tenantId |-> stream[1],
                                    documentId |-> stream[2], result |-> r.result ])
    /\ UNCHANGED << connectState, closed, streams >>

Connect ==
    /\ connectState = "connecting"
    /\ \E error \in BOOLEAN : connectState' = IF error THEN "failed" ELSE "ready"
    /\ Becomes(connectCallback(This))
    /\ UNCHANGED << closed, streams, calls >>

Immediate ==
    /\ immediates > 0
    /\ Becomes([ immediateCallback(This) EXCEPT !.immediates = @ - 1 ])
    /\ UNCHANGED << connectState, closed, streams, calls >>

DeliveryReport ==
    /\ \E i \in 1..Len(produced), err \in {"ok", DeliveryError} :
        /\ reports[i] = "awaiting"
        /\ Becomes(deliveryReport(This, i, err))
    /\ UNCHANGED << connectState, closed, streams, calls >>

Close ==
    /\ closed' = TRUE
    /\ Becomes(close(This))
    /\ UNCHANGED << connectState, streams, calls >>

EventLog ==
    /\ Becomes(eventLog(This))
    /\ UNCHANGED << connectState, closed, streams, calls >>

EventError ==
    /\ Becomes(eventError(This))
    /\ UNCHANGED << connectState, closed, streams, calls >>

Ready ==
    /\ Becomes(ready(This))
    /\ UNCHANGED << connectState, closed, streams, calls >>

Disconnected ==
    /\ Becomes(disconnected(This))
    /\ UNCHANGED << connectState, closed, streams, calls >>

Send == SendUpTo(MaxSends)

Next ==
    \/ Send \/ Connect \/ Immediate \/ DeliveryReport \/ Close
    \/ EventLog \/ EventError \/ Ready \/ Disconnected

Spec == Init /\ [][Next]_vars

\* The same producer under fewer sends, with the event loop running every
\* callback handed to setImmediate.
LiveSend == SendUpTo(MaxLiveSends)

LiveNext ==
    \/ LiveSend \/ Connect \/ Immediate \/ DeliveryReport \/ Close
    \/ EventLog \/ EventError \/ Ready \/ Disconnected

LiveSpec == Init /\ [][LiveNext]_vars /\ WF_vars(Immediate)

\* The same producer built with a MaxBatchSize the counter reaches.
CeilingInit ==
    /\ maxMessageSize = 3 * ConfiguredMaxMessageSize
    /\ messages = <<>>
    /\ connected = FALSE
    /\ sendPending = FALSE
    /\ pendingMessageCount = 0
    /\ maxBatchSize = CeilingBatchSize
    /\ immediates = 0
    /\ deferreds = <<>>
    /\ produced = <<>>
    /\ reports = <<>>
    /\ connectState = "connecting"
    /\ closed = FALSE
    /\ streams \in StreamSets
    /\ calls = <<>>

CeilingSpec == CeilingInit /\ [][Next]_vars

\* Either build of the producer.
BuildsInit == Init \/ CeilingInit

BuildsSpec == BuildsInit /\ [][Next]_vars

\* ---------------------------------------------------------------- observations

\* Four times the effective limit: 75% of the configured maximum is 3/4 of it.
Limit4 == 3 * ConfiguredMaxMessageSize

Keys == { Key(stream[1], stream[2]) : stream \in Streams }

RECURSIVE Concat(_)
Concat(seqs) == IF seqs = <<>> THEN <<>> ELSE Head(seqs) \o Concat(Tail(seqs))

RECURSIVE SumLen(_)
SumLen(msgs) == IF msgs = <<>> THEN 0 ELSE Len(Head(msgs)) + SumLen(Tail(msgs))

Repeat(x, n) == [i \in 1..n |-> x]

Accepted(call) == call.result.status = "deferred"
CallKey(call) == Key(call.tenantId, call.documentId)
RecordKey(record) == Key(record.tenantId, record.documentId)

\* The accepted send calls for key, in call order, their messages and the
\* Deferreds they returned.
AcceptedCalls(key) == SelectSeq(calls, LAMBDA c : Accepted(c) /\ CallKey(c) = key)
MessagesOfCalls(cs) == [i \in 1..Len(cs) |-> cs[i].message]
HandlesOfCalls(cs) == [i \in 1..Len(cs) |-> cs[i].result.deferred]
Submitted(key) == MessagesOfCalls(AcceptedCalls(key))
SubmittedHandles(key) == HandlesOfCalls(AcceptedCalls(key))

\* The produce calls made for key, in produce order, and key's queue.
ProducedFor(key) == SelectSeq(produced, LAMBDA r : RecordKey(r) = key)
QueuedIn(map, key) == IF Has(map, key) THEN map[EntryOf(map, key)].boxcars ELSE <<>>
QueuedFor(key) == QueuedIn(messages, key)
ContentsOf(records) == [i \in 1..Len(records) |-> records[i].contents]
MessagesOf(boxcars) == [i \in 1..Len(boxcars) |-> boxcars[i].messages]
ProducedContents(key) == ContentsOf(ProducedFor(key))
QueuedContents(key) == MessagesOf(QueuedFor(key))

\* Every boxcar still queued, over all keys.
BoxcarsOf(map) == Concat([i \in 1..Len(map) |-> map[i].boxcars])
AllQueued == BoxcarsOf(messages)
QueuedCount == Len(Concat(MessagesOf(AllQueued)))
AcceptedCount == Len(SelectSeq(calls, Accepted))
ProducedCount == Len(Concat(ContentsOf(produced)))

\* The frame of a send that is refused.
ProducerUnchanged ==
    UNCHANGED << maxMessageSize, messages, connected, sendPending, pendingMessageCount,
                 maxBatchSize, immediates, deferreds, produced, reports >>

\* ---------------------------------------------------------------- claims

\* What C1 is stated with.
C1_Step ==
    Len(calls') = Len(calls) + 1 =>
        LET call == calls'[Len(calls')] IN
        IF 4 * Len(call.message) >= Limit4
        THEN call.result.status = "rejected" /\ ProducerUnchanged
        ELSE call.result.status = "deferred"
AllBelowLimit(msgs) == \A i \in 1..Len(msgs) : 4 * Len(msgs[i]) < Limit4
C1_NothingOversizedStored ==
    /\ AllBelowLimit(Concat(MessagesOf(AllQueued)))
    /\ AllBelowLimit(Concat(ContentsOf(produced)))
\* C1: a send of a message whose length is at least the effective limit (75% of
\* the configured maximum) returns the rejected promise and changes nothing of the
\* producer (queues, boxcars, counter, flush flag, Deferreds, produce calls); a
\* shorter message is never refused; and no message that long is ever queued or
\* produced.
C1_OversizedRejected == [][C1_Step]_vars /\ []C1_NothingOversizedStored
\* An accepted send, then a refused one that left the one queued message alone.
C1_Witness ==
    \E i, j \in 1..Len(calls) :
        /\ i < j
        /\ Accepted(calls[i])
        /\ ~Accepted(calls[j])
        /\ QueuedCount = 1

\* C2: for every key, the contents of the records produced for it, concatenated in
\* produce order and followed by what is still queued for it, are exactly the
\* messages accepted for that key in the order send was called.
C2_OrderPreserved ==
    \A key \in Keys :
        Concat(ProducedContents(key)) \o Concat(QueuedContents(key)) = Submitted(key)
\* Two records of one key that would have fitted one boxcar (so they come from two
\* flushes), a record of another key, and the messages differ.
C2_Witness ==
    \E key \in Keys, other \in Keys :
        /\ other # key
        /\ Len(ProducedFor(other)) >= 1
        /\ Len(ProducedFor(key)) = 2
        /\ 4 * SumLen(Concat(ProducedContents(key))) <= Limit4
        /\ ProducedFor(key)[1].contents # ProducedFor(key)[2].contents

\* What C3 is stated with.
OpaquePerMessage(records) ==
    Concat([i \in 1..Len(records) |-> Repeat(records[i].opaque, Len(records[i].contents))])
DeferredPerMessage(boxcars) ==
    Concat([i \in 1..Len(boxcars) |-> Repeat(boxcars[i].deferred, Len(boxcars[i].messages))])
BoxcarHandles(key) == OpaquePerMessage(ProducedFor(key)) \o DeferredPerMessage(QueuedFor(key))
HandlesOf(records, boxcars) ==
    [i \in 1..Len(records) |-> records[i].opaque]
    \o [i \in 1..Len(boxcars) |-> boxcars[i].deferred]
AllHandles == HandlesOf(produced, AllQueued)
Distinct(seq) == Cardinality({ seq[i] : i \in 1..Len(seq) }) = Len(seq)
\* C3: a send returns the Deferred of the boxcar its message was appended to, so
\* two sends whose messages share a boxcar hold the same Deferred (and with it
\* the same outcome), and no two boxcars, queued or produced, of one key or of
\* two, share a Deferred.
C3_SharedHandle ==
    /\ \A key \in Keys : BoxcarHandles(key) = SubmittedHandles(key)
    /\ Distinct(AllHandles)
    /\ \A i \in 1..Len(AllHandles) : AllHandles[i] \in 1..Len(deferreds)
\* Two sends of one key share a rejected Deferred and a third send of that key,
\* in the next boxcar, holds another one, still pending.
C3_Witness ==
    \E key \in Keys :
        /\ Len(SubmittedHandles(key)) = 3
        /\ SubmittedHandles(key)[1] = SubmittedHandles(key)[2]
        /\ SubmittedHandles(key)[2] # SubmittedHandles(key)[3]
        /\ deferreds[SubmittedHandles(key)[1]].state = "rejected"
        /\ deferreds[SubmittedHandles(key)[3]].state = "pending"

\* What C4 is stated with.
Settled(report) ==
    IF report = "ok" THEN [state |-> "resolved", value |-> "undefined"]
    ELSE [state |-> "rejected", value |-> report]
C4_Step ==
    \A i \in 1..Len(produced) :
        (reports[i] = "awaiting" /\ reports'[i] # "awaiting") =>
            /\ deferreds'[produced[i].opaque] = Settled(reports'[i])
            /\ \A h \in 1..Len(deferreds) :
                    h # produced[i].opaque => deferreds'[h] = deferreds[h]
\* C4: the step that delivers the report of a produce call rejects that call's
\* opaque Deferred with the report's error when there is one and resolves it
\* otherwise, and leaves every other Deferred as it was.
C4_ReportSettlesOnlyItsBoxcar == [][C4_Step]_vars
\* Two records of one key: the first failed, the second was delivered.
C4_Witness ==
    \E i, j \in 1..Len(produced) :
        /\ i < j
        /\ RecordKey(produced[i]) = RecordKey(produced[j])
        /\ deferreds[produced[i].opaque] = [state |-> "rejected", value |-> DeliveryError]
        /\ deferreds[produced[j].opaque].state = "resolved"

\* What C5 is stated with.
SizeBounded(boxcars) ==
    \A i \in 1..Len(boxcars) :
        /\ boxcars[i].size = SumLen(boxcars[i].messages)
        /\ 4 * boxcars[i].size <= Limit4
C5_Bounded == SizeBounded(AllQueued)
C5_Step ==
    (Len(calls') = Len(calls) + 1 /\ Accepted(calls'[Len(calls')])) =>
        LET call == calls'[Len(calls')]
            queue == QueuedFor(CallKey(call))
            after == QueuedIn(messages', CallKey(call))
        IN (queue # <<>> /\ 4 * (queue[Len(queue)].size + Len(call.message)) > Limit4) =>
                /\ Len(after) = Len(queue) + 1
                /\ SubSeq(after, 1, Len(queue)) = queue
                /\ after[Len(after)].messages = <<call.message>>
\* C5: every queued boxcar's size is the sum of its messages' lengths and is at
\* most the effective limit, and a send whose message would take the tail of its
\* key's queue above the limit leaves the tail as it was and appends a boxcar
\* holding just that message.
C5_BoxcarSizeBound == []C5_Bounded /\ [][C5_Step]_vars
\* A full boxcar (size equal to the limit) followed by a second one.
C5_Witness ==
    \E key \in Keys :
        /\ Len(QueuedFor(key)) = 2
        /\ 4 * QueuedFor(key)[1].size = Limit4
        /\ Len(QueuedFor(key)[1].messages) = 2

\* What C6 is stated with.
C6_OneScheduled ==
    /\ immediates <= 1
    /\ (connected /\ QueuedCount >= 1) => (sendPending /\ immediates = 1)
C6_FlushStep ==
    immediates' < immediates =>
        LET new == SubSeq(produced', Len(produced) + 1, Len(produced')) IN
        /\ SubSeq(produced', 1, Len(produced)) = produced
        /\ Len(new) = Len(AllQueued)
        /\ { new[i].opaque : i \in 1..Len(new) }
             = { AllQueued[i].deferred : i \in 1..Len(AllQueued) }
        /\ Len(Concat(ContentsOf(new))) = QueuedCount
        /\ messages' = <<>>
        /\ immediates' = 0
\* C6: while connected, any number (at least one) of accepted sends not yet
\* flushed stand behind exactly one scheduled setImmediate callback, never two;
\* the run of that callback hands every queued boxcar to produce, one call per
\* boxcar, empties the queues and leaves no further callback scheduled.
C6_Coalesced == []C6_OneScheduled /\ [][C6_FlushStep]_vars
\* Three sends to two keys wait for one scheduled callback.
C6_Witness ==
    /\ connected
    /\ immediates = 1
    /\ QueuedCount = 3
    /\ Len(messages) = 2

\* What C7 is stated with.
GreedyAdd(parts, message) ==
    IF parts = <<>> \/ 4 * (SumLen(parts[Len(parts)]) + Len(message)) > Limit4
    THEN Append(parts, <<message>>)
    ELSE [parts EXCEPT ![Len(parts)] = Append(@, message)]
RECURSIVE GreedyFold(_, _)
GreedyFold(parts, msgs) ==
    IF msgs = <<>> THEN parts ELSE GreedyFold(GreedyAdd(parts, Head(msgs)), Tail(msgs))
Greedy(msgs) == GreedyFold(<<>>, msgs)
DropFirst(seq, n) == SubSeq(seq, n + 1, Len(seq))
SinceFlush(key) == DropFirst(Submitted(key), Len(Concat(ProducedContents(key))))
NewRecordsFor(old, new, key) ==
    SelectSeq(DropFirst(new, Len(old)), LAMBDA r : RecordKey(r) = key)
C7_QueueIsGreedy == \A key \in Keys : QueuedContents(key) = Greedy(SinceFlush(key))
C7_FlushStep ==
    produced' # produced =>
        \A key \in Keys :
            ContentsOf(NewRecordsFor(produced, produced', key)) = Greedy(SinceFlush(key))
\* C7: the queue of a key holds the greedy in-order partition of the messages
\* accepted for it since the last flush (a message joins the last part exactly
\* when the part's size plus its length is at most the effective limit), and a
\* flush produces for each key exactly these parts, one record each, in order.
C7_GreedyPartition == []C7_QueueIsGreedy /\ [][C7_FlushStep]_vars
\* Two records for one key with contents [m1, m2] and [m3], m3 not fitting the
\* first.
C7_Witness ==
    /\ Len(produced) = 2
    /\ RecordKey(produced[1]) = RecordKey(produced[2])
    /\ Len(produced[1].contents) = 2
    /\ Len(produced[2].contents) = 1
    /\ 4 * (SumLen(produced[1].contents) + SumLen(produced[2].contents)) > Limit4

\* C8: until the connect callback has fired the producer is not connected, and
\* while it is not connected no setImmediate callback is scheduled, no produce
\* call has been made and every accepted message is in its key's queue.
C8_NotConnectedNoFlush ==
    /\ connectState = "connecting" => ~connected
    /\ ~connected =>
        /\ ~sendPending
        /\ immediates = 0
        /\ produced = <<>>
        /\ \A key \in Keys : Concat(QueuedContents(key)) = Submitted(key)
        /\ QueuedCount = AcceptedCount
\* Three sends accepted before the connect callback, queued in two boxcars.
C8_Witness ==
    /\ ~connected
    /\ AcceptedCount = 3
    /\ Len(AllQueued) = 2

\* What C9 is stated with.
RankInKey(i) ==
    Len(SelectSeq(SubSeq(calls, 1, i),
                  LAMBDA c : Accepted(c) /\ CallKey(c) = CallKey(calls[i])))
AcceptedAt(i) == i <= Len(calls) /\ Accepted(calls[i])
ProducedAt(i) ==
    /\ AcceptedAt(i)
    /\ Len(Concat(ProducedContents(CallKey(calls[i])))) >= RankInKey(i)
\* C9: under LiveSpec (the event loop runs scheduled callbacks; nothing is assumed
\* of further sends), once the producer is connected every accepted message is
\* eventually in a produce call: also one queued before the connect callback.
C9_EventuallyProduced ==
    \A i \in 1..MaxLiveSends : (connected /\ AcceptedAt(i)) ~> ProducedAt(i)
\* Every message of two accepted sends has been produced, in two records.
C9_Witness ==
    /\ connected
    /\ AcceptedCount = 2
    /\ Len(produced) = 2
    /\ \A i \in 1..2 : ProducedAt(i)

\* What C10 is stated with.
C10_SettledAfterReport ==
    /\ \A i \in 1..Len(AllQueued) : deferreds[AllQueued[i].deferred].state = "pending"
    /\ \A h \in 1..Len(deferreds) :
            deferreds[h].state # "pending" =>
                \E i \in 1..Len(produced) : produced[i].opaque = h /\ reports[i] # "awaiting"
C10_Step ==
    \A h \in 1..Len(deferreds) :
        deferreds'[h] # deferreds[h] =>
            /\ deferreds[h].state = "pending"
            /\ UNCHANGED << calls, closed, produced, messages, immediates >>
            /\ \E i \in 1..Len(produced) :
                    /\ produced[i].opaque = h
                    /\ reports[i] = "awaiting"
                    /\ reports'[i] # "awaiting"
\* C10: a Deferred changes state only in the step that delivers the report of
\* the produce call carrying it, only from pending, and not in a step that sends,
\* flushes or closes; so the Deferred of a queued boxcar is pending and every
\* settled Deferred belongs to a produced record the broker has reported on.
C10_SettledOnceByReport == []C10_SettledAfterReport /\ [][C10_Step]_vars
\* After close: a Deferred rejected by its report, one produced and awaiting its
\* report, one still queued.
C10_Witness ==
    /\ closed
    /\ Len(AllQueued) = 1
    /\ \E i, j \in 1..Len(produced) :
            /\ deferreds[produced[i].opaque].state = "rejected"
            /\ reports[j] = "awaiting"
            /\ deferreds[produced[j].opaque].state = "pending"

\* C11: once the connect callback has reported an error the producer is not
\* connected, no flush is scheduled and no produce call has been made.
C11_FailedConnectDefers ==
    connectState = "failed" =>
        /\ ~connected
        /\ ~sendPending /\ immediates = 0
        /\ produced = <<>>

\* What C12 is stated with: a send step whose message passes the size check.
C12_Step ==
    Len(calls') = Len(calls) + 1 =>
        LET call == calls'[Len(calls')]
            key == CallKey(call)
            before == QueuedFor(key)
            after == QueuedIn(messages', key)
        IN  4 * Len(call.message) < Limit4 =>
                /\ Accepted(call)
                /\ after # <<>>
                /\ after[Len(after)].deferred = call.result.deferred
                /\ Len(after) \in { Len(before), Len(before) + 1 }
                /\ Concat(MessagesOf(after)) = Append(Concat(MessagesOf(before)), call.message)
                /\ LET tail == after[Len(after)].messages IN
                   tail[Len(tail)] = call.message
                /\ \A other \in Keys \ {key} : QueuedIn(messages', other) = QueuedFor(other)
                /\ pendingMessageCount' = pendingMessageCount + 1

\* C12: every send of a message that passes the size check is accepted, in
\* every state of the producer (connected or not, flush scheduled or not,
\* whatever is queued, closed or not): the message becomes the last message of
\* its key's tail boxcar and pendingMessageCount grows by one.
C12_AlwaysAccepted == [][C12_Step]_vars

\* C12 witness: a closed, connected producer with a flush scheduled and several
\* messages queued, the last send accepted.
C12_Witness ==
    /\ closed /\ connected /\ sendPending
    /\ pendingMessageCount >= 2
    /\ calls # <<>> /\ Accepted(calls[Len(calls)])

\* C13 as stated: the state is empty at construction, and once close has been
\* called no boxcar is queued, no deferred flush is scheduled and no produce
\* call is made.
C13_TornDownOnClose ==
    [][ /\ closed' =>
            /\ AllQueued' = <<>> /\ pendingMessageCount' = 0
            /\ ~sendPending' /\ immediates' = 0
        /\ closed => produced' = produced ]_vars

\* What C13 is stated with: the state right after construction, and a step that
\* is a call of close.
C13_EmptyAtConstruction ==
    Len(calls) = 0 /\ connectState = "connecting" =>
        /\ messages = <<>> /\ pendingMessageCount = 0
        /\ ~sendPending /\ immediates = 0
        /\ produced = <<>>
C13_CloseStep ==
    ~closed /\ closed' =>
        /\ messages' = messages
        /\ pendingMessageCount' = pendingMessageCount
        /\ sendPending' = sendPending /\ immediates' = immediates
        /\ connected' = connected
        /\ produced' = produced
C13_AfterCloseStep ==
    closed /\ immediates' < immediates => produced' = produced \o ProduceAll(messages)

\* C13: the queues, the counter and the flush flag are empty at construction;
\* close changes none of them: the boxcars queued at close stay queued, a
\* scheduled flush stays scheduled, and when it runs after close it hands them
\* to produce.
C13_CloseKeepsState ==
    /\ [](C13_EmptyAtConstruction)
    /\ [][C13_CloseStep /\ C13_AfterCloseStep]_vars

\* C13 witness: after close a boxcar is still queued with its flush scheduled.
C13_Witness ==
    /\ closed
    /\ AllQueued # <<>> /\ pendingMessageCount > 0
    /\ sendPending /\ immediates = 1

\* What C14 is stated with: the boxcar a send put its message in is the one
\* whose Deferred the send returned.
CarriesPairOf(call, carrier) ==
    carrier.tenantId = call.tenantId /\ carrier.documentId = call.documentId

\* C14: every message of a produced record, and of a queued boxcar, was
\* submitted with the tenantId and the documentId that the record or boxcar
\* carries, also for ids that contain "/".
C14_OnePairPerBoxcar ==
    \A i \in 1..Len(calls) :
        Accepted(calls[i]) =>
            /\ \A j \in 1..Len(produced) :
                   produced[j].opaque = calls[i].result.deferred
                       => CarriesPairOf(calls[i], produced[j])
            /\ \A j \in 1..Len(AllQueued) :
                   AllQueued[j].deferred = calls[i].result.deferred
                       => CarriesPairOf(calls[i], AllQueued[j])

\* What C15 is stated with: a send made while connected that brings the counter
\* to the ceiling, and what holds whenever no handler is running.
C15_Step ==
    (/\ Len(calls') = Len(calls) + 1
     /\ Accepted(calls'[Len(calls')])
     /\ connected
     /\ pendingMessageCount + 1 >= maxBatchSize) =>
        /\ messages' = <<>>
        /\ pendingMessageCount' = 0
        /\ ~sendPending'
        /\ immediates' = 0
        /\ Len(produced') > Len(produced)
        /\ Len(Concat(ContentsOf(produced'))) = ProducedCount + pendingMessageCount + 1
C15_BelowCeiling ==
    /\ connected => pendingMessageCount < maxBatchSize
    /\ immediates = (IF sendPending THEN 1 ELSE 0)

\* C15: built with a ceiling B the counter reaches (CeilingSpec), a send made
\* while connected that brings pendingMessageCount to B cancels the scheduled
\* flush and flushes inside the send: on return the queues are empty, the
\* counter is zero, the flag is clear and no callback is left to run; while
\* connected the counter is below B whenever a handler has returned.
C15_CeilingFlush == [](C15_BelowCeiling) /\ [][C15_Step]_vars

\* C15 witness: a first message flushed alone, then as many as the ceiling in
\* one record of the same key: queued together the three would have shared a
\* boxcar, so the second record is the flush made inside a send, and it
\* cancelled the flush the first of its messages had scheduled.
C15_Witness ==
    /\ maxBatchSize = CeilingBatchSize
    /\ connected
    /\ Len(produced) = 2
    /\ RecordKey(produced[1]) = RecordKey(produced[2])
    /\ produced[1].contents = << Str(1) >>
    /\ produced[2].contents = [i \in 1..CeilingBatchSize |-> Str(1)]
    /\ messages = <<>> /\ pendingMessageCount = 0
    /\ ~sendPending /\ immediates = 0

\* What C16 is stated with: a step that runs a flush (the callback of a
\* scheduled flush, or a handler that flushes before it returns) is the one
\* that empties a queue or makes produce calls.
C16_IsFlush == immediates' < immediates \/ Len(produced') > Len(produced)
C16_Step ==
    C16_IsFlush =>
        /\ Len(produced') = Len(produced) + Len(AllQueued)
        /\ \A j \in 1..Len(AllQueued) :
               LET record == produced'[Len(produced) + j]
                   boxcar == AllQueued[j]
               IN  /\ record.contents = boxcar.messages
                   /\ record.tenantId = boxcar.tenantId
                   /\ record.documentId = boxcar.documentId
                   /\ record.key = boxcar.documentId
                   /\ record.opaque = boxcar.deferred
        /\ SubSeq(produced', 1, Len(produced)) = produced
        /\ messages' = <<>>
        /\ pendingMessageCount' = 0
C16_NoEmptyRecord ==
    /\ \A j \in 1..Len(produced) : produced[j].contents # <<>>
    /\ \A j \in 1..Len(AllQueued) : AllQueued[j].messages # <<>>

\* C16: a flush makes one produce call per queued boxcar, over every key, with
\* the boxcar's messages, ids and Deferred, and leaves the Map empty and the
\* counter at zero; with nothing queued it makes no produce call; no produced
\* record and no queued boxcar is without a message.
C16_FlushDrainsAll == [](C16_NoEmptyRecord) /\ [][C16_Step]_vars

\* C16 witness: the third send joined the boxcar of the first while the boxcar
\* of the second, of another key, was queued behind it; one flush then
\* produced both boxcars.
C16_Witness ==
    /\ Len(calls) >= 3
    /\ calls[1].result.deferred = 1
    /\ calls[2].result.deferred = 2
    /\ calls[3].result.deferred = 1
    /\ Len(produced) = 2
    /\ produced[1].opaque = 1 /\ Len(produced[1].contents) = 2
    /\ produced[2].opaque = 2
    /\ messages = <<>> /\ pendingMessageCount = 0

\* What C17 is stated with: the batching state of a producer, the handlers
\* that only log, a step that delivers a report and a step that runs a flush.
BatchingState(s) ==
    << s.messages, s.pendingMessageCount, s.sendPending, s.immediates >>
C17_LoggingHandlers ==
    \A after \in { eventLog(This), eventError(This), ready(This), disconnected(This) } :
        BatchingState(after) = BatchingState(This)
C17_ReportStep ==
    (Len(reports') = Len(reports) /\ reports' # reports) =>
        /\ UNCHANGED << messages, pendingMessageCount, sendPending, immediates >>
        /\ produced' = produced
C17_FlushStep ==
    Len(produced') > Len(produced) =>
        /\ deferreds' = deferreds
        /\ SubSeq(reports', 1, Len(reports)) = reports
        /\ \A j \in Len(reports) + 1..Len(reports') : reports'[j] = "awaiting"

\* C17: the handlers of the log, error, ready and disconnected events and the
\* delivery-report handler (report with or without error) leave the Map, its
\* boxcars, pendingMessageCount and the scheduled flush as they were; a flush
\* returns with the reports of its produce calls outstanding and settles no
\* Deferred itself.
C17_EventsObservational ==
    [](C17_LoggingHandlers) /\ [][C17_ReportStep /\ C17_FlushStep]_vars

\* C17 witness: a failed report has been delivered and a later produce call is
\* still without its report, while a boxcar is queued with its flush scheduled.
C17_Witness ==
    /\ Len(reports) = 2
    /\ reports[1] = DeliveryError /\ reports[2] = "awaiting"
    /\ AllQueued # <<>> /\ sendPending /\ immediates = 1

\* What C18 is stated with: the boxcar of Deferred h, wherever it is, and the
\* sends that returned h.
RecordsOf(h) == SelectSeq(produced, LAMBDA r : r.opaque = h)
QueuedOf(h) == SelectSeq(AllQueued, LAMBDA b : b.deferred = h)
SentInto(h) == SelectSeq(calls, LAMBDA c : Accepted(c) /\ c.result.deferred = h)
C18_OnePlace(h) == Len(RecordsOf(h)) + Len(QueuedOf(h)) = 1
C18_SameMessages(h) ==
    Concat(ContentsOf(RecordsOf(h))) \o Concat(MessagesOf(QueuedOf(h)))
        = MessagesOfCalls(SentInto(h))

\* C18: in either build (BuildsSpec: flushes by the scheduled callback, by the
\* connect callback and at the ceiling), every boxcar is either queued or in
\* exactly one produce call, never both and never twice, and it holds exactly
\* the messages of the sends that returned its Deferred: the messages produced
\* and the messages queued are together the messages accepted, each once.
C18_ExactlyOnce ==
    /\ ProducedCount + QueuedCount = AcceptedCount
    /\ \A h \in 1..Len(deferreds) : C18_OnePlace(h) /\ C18_SameMessages(h)
    /\ \A i \in 1..Len(calls) :
           Accepted(calls[i]) => calls[i].result.deferred \in 1..Len(deferreds)

\* C18 witness: with no ceiling in reach, a message was flushed alone and then
\* two of the same key in one record: the second of them was sent after the
\* flush was scheduled and before it ran, and both were produced once.
C18_Witness ==
    /\ maxBatchSize = MaxBatchSize
    /\ Len(produced) = 2
    /\ RecordKey(produced[1]) = RecordKey(produced[2])
    /\ produced[1].contents = << Str(1) >>
    /\ produced[2].contents = << Str(1), Str(1) >>
    /\ messages = <<>>
    /\ AcceptedCount = 3

\* C19: in every state between two handlers, this.sendPending is set exactly
\* when one callback handed to setImmediate is still to run, and is set
\* whenever the producer is connected with a message queued: queued messages
\* of a connected producer always have a flush on its way, and the flag never
\* outlives its callback.
C19_FlagMatchesTask ==
    /\ sendPending <=> immediates > 0
    /\ immediates <= 1
    /\ (connected /\ (QueuedCount > 0 \/ pendingMessageCount > 0)) => sendPending
    /\ sendPending => connected

\* C19 witness: a connected producer whose flush has run, a message sent since
\* then queued with a new flush scheduled.
C19_Witness ==
    /\ connected
    /\ produced # <<>>
    /\ QueuedCount = 1
    /\ sendPending /\ immediates = 1

\* What C20 is stated with: the messages in the boxcars of a Map, and the
\* steps that are a send and a flush.
CountIn(map) == SumLen(MessagesOf(BoxcarsOf(map)))
C20_CounterIsTotal == pendingMessageCount = CountIn(messages)
C20_SendStep ==
    Len(calls') = Len(calls) + 1 =>
        IF Accepted(calls'[Len(calls')])
        THEN /\ pendingMessageCount' = pendingMessageCount + 1
             /\ CountIn(messages') = CountIn(messages) + 1
        ELSE /\ pendingMessageCount' = pendingMessageCount
             /\ messages' = messages
C20_FlushStep ==
    immediates' < immediates =>
        pendingMessageCount' = 0 /\ CountIn(messages') = 0

\* C20: pendingMessageCount is the number of messages in all boxcars of all
\* keys in every reachable state; an accepted send raises both by one, a
\* rejected send changes neither and a flush brings both to zero.
C20_CounterMatchesQueues ==
    [](C20_CounterIsTotal) /\ [][C20_SendStep /\ C20_FlushStep]_vars

\* C20 witness: two accepted messages queued in two boxcars and counted; one
\* send was rejected and not counted.
C20_Witness ==
    /\ pendingMessageCount = 2
    /\ Len(AllQueued) = 2
    /\ Len(calls) = 3
    /\ \E i \in 1..Len(calls) : ~Accepted(calls[i])

====
